---- MODULE Spec2Model ----
(***************************************************************************)
(* Model of the dummy backend of the standalone wrapper                    *)
(* (src/wrapper/standalone/backend/dummy.rs): Dummy::new and the periodic  *)
(* callback loop of <Dummy as Backend>::run.                               *)
(*                                                                         *)
(* The callback is opaque code of the caller.  It is modelled as an        *)
(* environment that, while it holds the views, writes samples, pushes note *)
(* events and finally returns a boolean after some time has passed.        *)
(***************************************************************************)
EXTENDS Integers, Sequences, FiniteSets

(***************************************************************************)
(* Bounds of the exploration.                                              *)
(***************************************************************************)
MaxIter == 2        \* callback invocations explored per call of run
MaxRuns == 2        \* calls of run explored on one driver
MaxWrites == 1      \* sample writes explored per callback invocation
MaxEvents == 1      \* note events pushed per callback invocation
MaxCbTicks == 2     \* ticks one callback invocation may take
TicksPerSec == 2    \* resolution of Instant/Duration in the model

(***************************************************************************)
(* Option values: None is the empty tuple, Some(x) the one-element tuple.  *)
(***************************************************************************)
None == << >>
Some(x) == << x >>
IsSome(o) == o # None
Unwrap(o) == o[1]

(***************************************************************************)
(* Inputs: the WrapperConfig and the plugin's audio I/O layout.            *)
(***************************************************************************)
PeriodSizes == {1, 2}
\* << sample_rate, tempo, timesig_num, timesig_denom >>
Presets == { <<1, 120, 4, 4>>, <<3, 90, 3, 8>> }

Configs ==
  { [sample_rate |-> m[1], period_size |-> p, tempo |-> m[2],
     timesig_num |-> m[3], timesig_denom |-> m[4]] :
       p \in PeriodSizes, m \in Presets }

Layouts ==
  { [main_output_channels |-> None,    aux_input_ports |-> << >>,
     aux_output_ports |-> << >>],
    [main_output_channels |-> Some(2), aux_input_ports |-> << >>,
     aux_output_ports |-> << >>],
    [main_output_channels |-> Some(2), aux_input_ports |-> << 2 >>,
     aux_output_ports |-> << 1, 1 >>],
    [main_output_channels |-> Some(1), aux_input_ports |-> << 1, 2 >>,
     aux_output_ports |-> << 2 >>] }

\* ticks the top of an iteration may take before cb is entered
SetupTicks == {0, 1}
\* ticks thread::sleep may sleep longer than requested
Oversleep == {0, 1}

\* 0 stands for 0.0f32, 1 for any other sample value
Samples == {0, 1}
NoteEvents == {"note_on"}

VARIABLES
  pc,                   \* "start", "exited", "idle" (driver built, run not
                        \* active), "loop" (top of the loop), "in_cb",
                        \* "after_cb" (cb has returned), "returned"
  config,               \* the WrapperConfig handed to Dummy::new
  plugin_layout,        \* the layout the plugin resolves to, None if it cannot
  self,                 \* the Dummy, None before construction
  runs,                 \* calls of run so far
  allocs,               \* sample storage allocations so far
  interval,             \* run's local `interval`
  buffer,               \* run's local `buffer`, the view over `channels`
  aux_input_buffers,    \* run's local `aux_input_buffers`
  aux_output_buffers,   \* run's local `aux_output_buffers`
  midi_output_events,   \* run's local `midi_output_events`
  num_processed_samples,\* run's local `num_processed_samples`
  now,                  \* the monotonic clock read by Instant::now()
  period_start,         \* run's local `period_start`
  period_end,           \* run's local `period_end`
  sleep_req,            \* the duration last passed to thread::sleep
  busy,                 \* ticks that passed since period_start was taken
  cb_args,              \* the arguments of the current or last cb call, at entry
  rets,                 \* return values of this run's cb calls, in order
  writes,               \* sample writes done by the current cb call
  prev_dirty,           \* at the entry of a cb call: what the previous call
                        \* of this run had left behind ({} once cb has acted)
  calls,                \* cb calls begun in this run
  prev_overran,         \* the previous iteration of this run took longer
                        \* than the interval before it slept
  earlier_processed     \* at the entry of the first cb call of a run: the
                        \* samples the previous run had processed (0 once cb
                        \* has acted)

vars == << pc, config, plugin_layout, self, runs, allocs, interval, buffer,
           aux_input_buffers, aux_output_buffers, midi_output_events,
           num_processed_samples, now, period_start,
           period_end, sleep_req, busy, cb_args, rets, writes, prev_dirty,
           calls, prev_overran, earlier_processed >>

(***************************************************************************)
(* Buffer (crate::buffer): a view of `num_samples` samples per channel.    *)
(***************************************************************************)
BufferDefault == [num_samples |-> 0, output_slices |-> << >>]

set_slices(buf, num_samples, slices) ==
  [buf EXCEPT !.num_samples = num_samples, !.output_slices = slices]

samples(buf) == buf.num_samples

channels(buf) == Len(buf.output_slices)

\* vec![0.0f32; n]
ZeroVec(n) == [i \in 1..n |-> 0]

\* vec![vec![0.0f32; period_size]; channel_count]
ZeroStorage(channel_count, period_size) ==
  [c \in 1..channel_count |-> ZeroVec(period_size)]

\* for channel in buffer.as_slice() { channel.fill(0.0) }
FillZero(buf) ==
  [buf EXCEPT !.output_slices =
     [c \in DOMAIN @ |-> [i \in DOMAIN @[c] |-> 0]]]

\* variant: the auxiliary buffers are not zeroed
FillZeroAllSkipped(bufs) == bufs

FillZeroAll(bufs) == [b \in DOMAIN bufs |-> FillZero(bufs[b])]

IsZero(buf) ==
  \A c \in DOMAIN buf.output_slices :
    \A i \in DOMAIN buf.output_slices[c] : buf.output_slices[c][i] = 0

AllZero(bufs) == \A b \in DOMAIN bufs : IsZero(bufs[b])

(***************************************************************************)
(* Pieces of run.                                                          *)
(***************************************************************************)
\* n / d rounded to the nearest integer, ties to even
RoundDiv(n, d) ==
  LET q == n \div d
      r == n % d
  IN  IF 2 * r < d THEN q
      ELSE IF 2 * r > d THEN q + 1
      ELSE IF q % 2 = 0 THEN q ELSE q + 1

\* Duration::from_secs_f32(period_size as f32 / sample_rate), in ticks
Interval(cfg) == RoundDiv(cfg.period_size * TicksPerSec, cfg.sample_rate)

\* main_output_channels.map(NonZeroU32::get).unwrap_or_default() as usize
NumOutputChannels(layout) ==
  IF IsSome(layout.main_output_channels)
  THEN Unwrap(layout.main_output_channels)
  ELSE 0

\* variant: the two sizes of the storage exchanged
MainBufferSwapped(cfg, layout) ==
  set_slices(BufferDefault, cfg.period_size,
             ZeroStorage(cfg.period_size, NumOutputChannels(layout)))

\* the main buffer set up over freshly allocated `channels`
MainBuffer(cfg, layout) ==
  set_slices(BufferDefault, cfg.period_size,
             ZeroStorage(NumOutputChannels(layout), cfg.period_size))

\* variant: the buffers pushed in the reverse order of the ports
AuxBuffersReversed(cfg, ports) ==
  [p \in 1..Len(ports) |->
     set_slices(BufferDefault, cfg.period_size,
                ZeroStorage(ports[Len(ports) + 1 - p], cfg.period_size))]

\* one Buffer per port, in the order of `ports`
AuxBuffers(cfg, ports) ==
  [p \in 1..Len(ports) |->
     set_slices(BufferDefault, cfg.period_size,
                ZeroStorage(ports[p], cfg.period_size))]

\* Transport::new(sample_rate)
TransportNew(sample_rate) ==
  [sample_rate |-> sample_rate, pos_samples |-> None, tempo |-> None,
   time_sig_numerator |-> None, time_sig_denominator |-> None,
   playing |-> FALSE]

\* variant: `playing` left as Transport::new sets it
BuildTransportNotPlaying(cfg, processed) ==
  [TransportNew(cfg.sample_rate) EXCEPT
     !.pos_samples = Some(processed),
     !.tempo = Some(cfg.tempo),
     !.time_sig_numerator = Some(cfg.timesig_num),
     !.time_sig_denominator = Some(cfg.timesig_denom)]

\* the transport built at the top of an iteration
BuildTransport(cfg, processed) ==
  [TransportNew(cfg.sample_rate) EXCEPT
     !.pos_samples = Some(processed),
     !.tempo = Some(cfg.tempo),
     !.time_sig_numerator = Some(cfg.timesig_num),
     !.time_sig_denominator = Some(cfg.timesig_denom),
     !.playing = TRUE]

\* variant: the queue is not cleared
ClearEventsSkipped(events) == events

\* midi_output_events.clear()
ClearEvents(events) == << >>

\* variant: the counter advanced by the samples of all channels
AdvanceByAllChannels(processed, buf) ==
  processed + samples(buf) * channels(buf)

\* variant: the counter advanced by the length of the first channel
AdvanceByFirstChannel(processed, buf) ==
  processed + (IF channels(buf) = 0 THEN 0 ELSE Len(buf.output_slices[1]))

\* num_processed_samples += buffer.samples() as i64
Advance(processed, buf) == processed + samples(buf)

\* variant: the absolute difference instead of the saturating one
AbsDurationSince(later, earlier) ==
  IF later >= earlier THEN later - earlier ELSE earlier - later

\* later.saturating_duration_since(earlier)
SaturatingDurationSince(later, earlier) ==
  IF later >= earlier THEN later - earlier ELSE 0

\* which of the callback's arguments still hold what a callback left in them
Dirty ==
  (IF IsZero(buffer) THEN {} ELSE {"main"})
    \cup (IF AllZero(aux_input_buffers) THEN {} ELSE {"aux_in"})
    \cup (IF AllZero(aux_output_buffers) THEN {} ELSE {"aux_out"})
    \cup (IF midi_output_events = << >> THEN {} ELSE {"midi"})

(***************************************************************************)
(* config.audio_io_layout_or_exit::<P>(): the plugin's layout, or None     *)
(* when the process exits because no layout can be resolved.               *)
(***************************************************************************)
audio_io_layout_or_exit(cfg, resolved) == resolved

(***************************************************************************)
(* The initial state: the process has a WrapperConfig, no driver yet.      *)
(***************************************************************************)
NoArgs == << >>

(***************************************************************************)
(* An Instant has no observable epoch, and run only takes the difference   *)
(* of Instants it read within one iteration.  The clock is therefore       *)
(* counted from the latest read of period_start (from the entry of run     *)
(* before the first one): the Instant read there is 0.                     *)
(***************************************************************************)

Init ==
  /\ pc = "start"
  /\ config \in Configs
  /\ plugin_layout \in {None} \cup { Some(l) : l \in Layouts }
  /\ self = None
  /\ runs = 0
  /\ allocs = 0
  /\ interval = 0
  /\ buffer = BufferDefault
  /\ aux_input_buffers = << >>
  /\ aux_output_buffers = << >>
  /\ midi_output_events = << >>
  /\ num_processed_samples = 0
  /\ now = 0
  /\ period_start = 0
  /\ period_end = 0
  /\ sleep_req = 0
  /\ busy = 0
  /\ cb_args = NoArgs
  /\ rets = << >>
  /\ writes = 0
  /\ prev_dirty = {}
  /\ calls = 0
  /\ prev_overran = FALSE
  /\ earlier_processed = 0

runLocals == << interval, buffer, aux_input_buffers, aux_output_buffers,
                midi_output_events, num_processed_samples, period_start,
                period_end, sleep_req, busy, cb_args, rets, writes,
                prev_dirty, calls, prev_overran, earlier_processed >>

\* variant: an unresolved layout falls back to the empty layout
NewWithFallback ==
  /\ pc = "start"
  /\ LET layout == audio_io_layout_or_exit(config, plugin_layout)
     IN  self' = Some([config |-> config,
                       audio_io_layout |->
                         IF IsSome(layout) THEN Unwrap(layout)
                         ELSE [main_output_channels |-> None,
                               aux_input_ports |-> << >>,
                               aux_output_ports |-> << >>]])
  /\ pc' = "idle"
  /\ UNCHANGED << config, plugin_layout, runs, allocs, now >>
  /\ UNCHANGED runLocals

(***************************************************************************)
(* Dummy::new                                                              *)
(***************************************************************************)
New ==
  /\ pc = "start"
  /\ LET layout == audio_io_layout_or_exit(config, plugin_layout)
     IN  IF IsSome(layout)
         THEN /\ self' = Some([config |-> config,
                               audio_io_layout |-> Unwrap(layout)])
              /\ pc' = "idle"
         ELSE /\ self' = None
              /\ pc' = "exited"
  /\ UNCHANGED << config, plugin_layout, runs, allocs, now >>
  /\ UNCHANGED runLocals

\* variant: the counter is kept from one call of run to the next
RunEnterKeepingCounter ==
  /\ pc \in {"idle", "returned"}
  /\ runs < MaxRuns
  /\ LET cfg == Unwrap(self).config
         layout == Unwrap(self).audio_io_layout
     IN  /\ interval' = Interval(cfg)
         /\ buffer' = MainBuffer(cfg, layout)
         /\ aux_input_buffers' = AuxBuffers(cfg, layout.aux_input_ports)
         /\ aux_output_buffers' = AuxBuffers(cfg, layout.aux_output_ports)
         /\ allocs' = allocs + 1 + Len(layout.aux_input_ports)
                                 + Len(layout.aux_output_ports)
  /\ midi_output_events' = << >>
  /\ num_processed_samples' = num_processed_samples
  /\ runs' = runs + 1
  /\ rets' = << >>
  /\ writes' = 0
  /\ prev_dirty' = {}
  /\ calls' = 0
  /\ prev_overran' = FALSE
  /\ earlier_processed' = num_processed_samples
  /\ cb_args' = NoArgs
  /\ now' = 0
  /\ period_start' = 0
  /\ period_end' = 0
  /\ sleep_req' = 0
  /\ busy' = 0
  /\ pc' = "loop"
  /\ UNCHANGED << config, plugin_layout, self >>

(***************************************************************************)
(* run, up to the loop: the interval, the storage and the views            *)
(***************************************************************************)
RunEnter ==
  /\ pc \in {"idle", "returned"}
  /\ runs < MaxRuns
  /\ LET cfg == Unwrap(self).config
         layout == Unwrap(self).audio_io_layout
     IN  /\ interval' = Interval(cfg)
         /\ buffer' = MainBuffer(cfg, layout)
         /\ aux_input_buffers' = AuxBuffers(cfg, layout.aux_input_ports)
         /\ aux_output_buffers' = AuxBuffers(cfg, layout.aux_output_ports)
         /\ allocs' = allocs + 1 + Len(layout.aux_input_ports)
                                 + Len(layout.aux_output_ports)
  /\ midi_output_events' = << >>
  /\ num_processed_samples' = 0
  /\ runs' = runs + 1
  /\ rets' = << >>
  /\ writes' = 0
  /\ prev_dirty' = {}
  /\ calls' = 0
  /\ prev_overran' = FALSE
  /\ earlier_processed' = num_processed_samples
  /\ cb_args' = NoArgs
  /\ now' = 0
  /\ period_start' = 0
  /\ period_end' = 0
  /\ sleep_req' = 0
  /\ busy' = 0
  /\ pc' = "loop"
  /\ UNCHANGED << config, plugin_layout, self >>

\* variant: the storage is allocated anew in every iteration
IterBeginReallocating ==
  /\ pc = "loop"
  /\ Len(rets) < MaxIter
  /\ period_start' = 0        \* Instant::now(), the clock's origin from here
  /\ period_end' = 0          \* not read yet in this iteration
  /\ sleep_req' = 0           \* nothing requested yet in this iteration
  /\ LET cfg == Unwrap(self).config
         layout == Unwrap(self).audio_io_layout
     IN  /\ buffer' = MainBuffer(cfg, layout)
         /\ aux_input_buffers' = AuxBuffers(cfg, layout.aux_input_ports)
         /\ aux_output_buffers' = AuxBuffers(cfg, layout.aux_output_ports)
         /\ allocs' = allocs + 1 + Len(layout.aux_input_ports)
                                 + Len(layout.aux_output_ports)
  /\ midi_output_events' = ClearEvents(midi_output_events)
  /\ cb_args' = [buffer |-> buffer',
                 aux |-> [inputs |-> aux_input_buffers',
                          outputs |-> aux_output_buffers'],
                 transport |-> BuildTransport(Unwrap(self).config,
                                              num_processed_samples),
                 events |-> << >>,
                 output_events |-> midi_output_events']
  /\ \E d \in SetupTicks :
       /\ now' = period_start' + d
       /\ busy' = d
  /\ prev_dirty' = Dirty
  /\ calls' = calls + 1
  /\ prev_overran' = (rets # << >> /\ period_end - period_start > interval)
  /\ writes' = 0
  /\ pc' = "in_cb"
  /\ UNCHANGED << config, plugin_layout, self, runs, interval,
                  num_processed_samples, rets, earlier_processed >>

\* variant: the next iteration does not wait for cb to return
IterBeginDuringCall ==
  /\ pc \in {"loop", "in_cb"}
  /\ Len(rets) < MaxIter
  /\ period_start' = 0        \* Instant::now(), the clock's origin from here
  /\ period_end' = 0          \* not read yet in this iteration
  /\ sleep_req' = 0           \* nothing requested yet in this iteration
  /\ buffer' = FillZero(buffer)
  /\ aux_input_buffers' = FillZeroAll(aux_input_buffers)
  /\ aux_output_buffers' = FillZeroAll(aux_output_buffers)
  /\ midi_output_events' = ClearEvents(midi_output_events)
  /\ cb_args' = [buffer |-> buffer',
                 aux |-> [inputs |-> aux_input_buffers',
                          outputs |-> aux_output_buffers'],
                 transport |-> BuildTransport(Unwrap(self).config,
                                              num_processed_samples),
                 events |-> << >>,
                 output_events |-> midi_output_events']
  /\ \E d \in SetupTicks :
       /\ now' = period_start' + d
       /\ busy' = d
  /\ prev_dirty' = Dirty
  /\ calls' = calls + 1
  /\ prev_overran' = (rets # << >> /\ period_end - period_start > interval)
  /\ writes' = 0
  /\ pc' = "in_cb"
  /\ UNCHANGED << config, plugin_layout, self, runs, allocs, interval,
                  num_processed_samples, rets, earlier_processed >>

(***************************************************************************)
(* The top of an iteration, up to the call of cb                           *)
(***************************************************************************)
IterBegin ==
  /\ pc = "loop"
  /\ Len(rets) < MaxIter
  /\ period_start' = 0        \* Instant::now(), the clock's origin from here
  /\ period_end' = 0          \* not read yet in this iteration
  /\ sleep_req' = 0           \* nothing requested yet in this iteration
  /\ buffer' = FillZero(buffer)
  /\ aux_input_buffers' = FillZeroAll(aux_input_buffers)
  /\ aux_output_buffers' = FillZeroAll(aux_output_buffers)
  /\ midi_output_events' = ClearEvents(midi_output_events)
  /\ cb_args' = [buffer |-> buffer',
                 aux |-> [inputs |-> aux_input_buffers',
                          outputs |-> aux_output_buffers'],
                 transport |-> BuildTransport(Unwrap(self).config,
                                              num_processed_samples),
                 events |-> << >>,
                 output_events |-> midi_output_events']
  /\ \E d \in SetupTicks :
       /\ now' = period_start' + d
       /\ busy' = d
  /\ prev_dirty' = Dirty
  /\ calls' = calls + 1
  /\ prev_overran' = (rets # << >> /\ period_end - period_start > interval)
  /\ writes' = 0
  /\ pc' = "in_cb"
  /\ UNCHANGED << config, plugin_layout, self, runs, allocs, interval,
                  num_processed_samples, rets, earlier_processed >>

(***************************************************************************)
(* The callback, while it holds the views                                  *)
(***************************************************************************)
WriteSample(buf, c, i, v) == [buf EXCEPT !.output_slices[c][i] = v]

CbWriteMain ==
  /\ pc = "in_cb"
  /\ writes < MaxWrites
  /\ \E c \in DOMAIN buffer.output_slices :
       \E i \in DOMAIN buffer.output_slices[c] :
         \E v \in Samples \ {0} :
           buffer' = WriteSample(buffer, c, i, v)
  /\ writes' = writes + 1
  /\ prev_dirty' = {}
  /\ earlier_processed' = 0
  /\ UNCHANGED << calls, prev_overran >>
  /\ UNCHANGED << pc, config, plugin_layout, self, runs, allocs, interval,
                  aux_input_buffers, aux_output_buffers, midi_output_events,
                  num_processed_samples, now, period_start,
                  period_end, sleep_req, busy, cb_args, rets >>

CbWriteAuxInput ==
  /\ pc = "in_cb"
  /\ writes < MaxWrites
  /\ \E b \in DOMAIN aux_input_buffers :
       \E c \in DOMAIN aux_input_buffers[b].output_slices :
         \E i \in DOMAIN aux_input_buffers[b].output_slices[c] :
           \E v \in Samples \ {0} :
             aux_input_buffers' =
               [aux_input_buffers EXCEPT
                  ![b] = WriteSample(aux_input_buffers[b], c, i, v)]
  /\ writes' = writes + 1
  /\ prev_dirty' = {}
  /\ earlier_processed' = 0
  /\ UNCHANGED << calls, prev_overran >>
  /\ UNCHANGED << pc, config, plugin_layout, self, runs, allocs, interval,
                  buffer, aux_output_buffers, midi_output_events,
                  num_processed_samples, now, period_start,
                  period_end, sleep_req, busy, cb_args, rets >>

CbWriteAuxOutput ==
  /\ pc = "in_cb"
  /\ writes < MaxWrites
  /\ \E b \in DOMAIN aux_output_buffers :
       \E c \in DOMAIN aux_output_buffers[b].output_slices :
         \E i \in DOMAIN aux_output_buffers[b].output_slices[c] :
           \E v \in Samples \ {0} :
             aux_output_buffers' =
               [aux_output_buffers EXCEPT
                  ![b] = WriteSample(aux_output_buffers[b], c, i, v)]
  /\ writes' = writes + 1
  /\ prev_dirty' = {}
  /\ earlier_processed' = 0
  /\ UNCHANGED << calls, prev_overran >>
  /\ UNCHANGED << pc, config, plugin_layout, self, runs, allocs, interval,
                  buffer, aux_input_buffers, midi_output_events,
                  num_processed_samples, now, period_start,
                  period_end, sleep_req, busy, cb_args, rets >>

CbPushEvent ==
  /\ pc = "in_cb"
  /\ Len(midi_output_events) < MaxEvents
  /\ \E e \in NoteEvents :
       midi_output_events' = Append(midi_output_events, e)
  /\ prev_dirty' = {}
  /\ earlier_processed' = 0
  /\ UNCHANGED << calls, prev_overran >>
  /\ UNCHANGED << pc, config, plugin_layout, self, runs, allocs, interval,
                  buffer, aux_input_buffers, aux_output_buffers,
                  num_processed_samples, now, period_start,
                  period_end, sleep_req, busy, cb_args, rets, writes >>

CbReturn ==
  /\ pc = "in_cb"
  /\ \E ret \in BOOLEAN : rets' = Append(rets, ret)
  /\ \E d \in 0..MaxCbTicks :
       /\ now' = now + d
       /\ busy' = busy + d
  /\ prev_dirty' = {}
  /\ earlier_processed' = 0
  /\ UNCHANGED << calls, prev_overran >>
  /\ pc' = "after_cb"
  /\ UNCHANGED << config, plugin_layout, self, runs, allocs, interval,
                  buffer, aux_input_buffers, aux_output_buffers,
                  midi_output_events, num_processed_samples,
                  period_start, period_end, sleep_req, cb_args, writes >>

(***************************************************************************)
(* After the call of cb: break, or advance the counter and sleep           *)
(***************************************************************************)
\* variant: the loop goes on after cb returned false
BreakSkipped ==
  /\ pc = "after_cb"
  /\ ~ rets[Len(rets)]
  /\ pc' = "loop"
  /\ UNCHANGED << config, plugin_layout, self, runs, allocs, now >>
  /\ UNCHANGED runLocals

\* variant: the loop is left whatever cb returned
BreakAlways ==
  /\ pc = "after_cb"
  /\ pc' = "returned"
  /\ UNCHANGED << config, plugin_layout, self, runs, allocs, now >>
  /\ UNCHANGED runLocals

\* variant: the counter is advanced before the return value is looked at
BreakAfterAdvance ==
  /\ pc = "after_cb"
  /\ ~ rets[Len(rets)]
  /\ num_processed_samples' = Advance(num_processed_samples, buffer)
  /\ pc' = "returned"
  /\ UNCHANGED << config, plugin_layout, self, runs, allocs, now, interval,
                  buffer, aux_input_buffers, aux_output_buffers,
                  midi_output_events, period_start, period_end, sleep_req,
                  busy, cb_args, rets, writes, prev_dirty, calls,
                  prev_overran, earlier_processed >>

Break ==
  /\ pc = "after_cb"
  /\ ~ rets[Len(rets)]
  /\ pc' = "returned"
  /\ UNCHANGED << config, plugin_layout, self, runs, allocs, now >>
  /\ UNCHANGED runLocals

\* variant: an overrun of the previous iteration shortens the sleep
AdvanceAndSleepCompensating ==
  /\ pc = "after_cb"
  /\ rets[Len(rets)]
  /\ num_processed_samples' = Advance(num_processed_samples, buffer)
  /\ period_end' = now
  /\ sleep_req' =
       SaturatingDurationSince(
         period_start + interval - (IF prev_overran THEN 1 ELSE 0),
         period_end')
  /\ \E over \in Oversleep : now' = now + sleep_req' + over
  /\ pc' = "loop"
  /\ UNCHANGED << config, plugin_layout, self, runs, allocs, interval,
                  buffer, aux_input_buffers, aux_output_buffers,
                  midi_output_events, period_start, busy,
                  cb_args, rets, writes, prev_dirty, calls, prev_overran,
                  earlier_processed >>

AdvanceAndSleep ==
  /\ pc = "after_cb"
  /\ rets[Len(rets)]
  /\ num_processed_samples' = Advance(num_processed_samples, buffer)
  /\ period_end' = now
  /\ sleep_req' = SaturatingDurationSince(period_start + interval, period_end')
  /\ \E over \in Oversleep : now' = now + sleep_req' + over
  /\ pc' = "loop"
  /\ UNCHANGED << config, plugin_layout, self, runs, allocs, interval,
                  buffer, aux_input_buffers, aux_output_buffers,
                  midi_output_events, period_start, busy,
                  cb_args, rets, writes, prev_dirty, calls, prev_overran,
                  earlier_processed >>

Next ==
  \/ New
  \/ RunEnter
  \/ IterBegin
  \/ CbWriteMain
  \/ CbWriteAuxInput
  \/ CbWriteAuxOutput
  \/ CbPushEvent
  \/ CbReturn
  \/ Break
  \/ AdvanceAndSleep

Spec == Init /\ [][Next]_vars

(***************************************************************************)
(* run is sequential code of one thread: once cb has returned, the steps   *)
(* of the driver up to the next call of cb (or up to the return of run)    *)
(* are taken; thread::sleep ends.  Nothing is assumed of the callback or   *)
(* of the caller of new and run.                                           *)
(***************************************************************************)
FairSpec ==
  /\ Spec
  /\ WF_vars(IterBegin)
  /\ WF_vars(Break)
  /\ WF_vars(AdvanceAndSleep)

(***************************************************************************)
(* Shorthands of the properties                                            *)
(***************************************************************************)
Cfg == Unwrap(self).config
Layout == Unwrap(self).audio_io_layout
Called == cb_args # NoArgs
LastRet == rets[Len(rets)]
\* index (from 0) of the cb call that cb_args belongs to
CallIndex == IF pc = "in_cb" THEN Len(rets) ELSE Len(rets) - 1
SamplesDirty == {"main", "aux_in", "aux_out"}

TypeOK ==
  /\ pc \in {"start", "exited", "idle", "loop", "in_cb", "after_cb",
             "returned"}
  /\ config \in Configs
  /\ runs \in 0..MaxRuns
  /\ rets \in Seq(BOOLEAN) /\ Len(rets) <= MaxIter
  /\ writes \in 0..MaxWrites
  /\ Len(midi_output_events) <= MaxEvents
  /\ now >= 0 /\ busy >= 0 /\ num_processed_samples >= 0

(***************************************************************************)
(* C1: the first cb call of a run that returns false is the last call of   *)
(* that run: a false is only ever the last entry of rets, no call is in    *)
(* progress after it, the one step run takes from there is its return, and *)
(* it takes that step.                                                     *)
(***************************************************************************)
FalseIsLast ==
  \A i \in 1..Len(rets) :
    ~ rets[i] => (i = Len(rets) /\ pc \in {"after_cb", "returned"})

C1_FirstFalseIsLast ==
  /\ [] FalseIsLast
  /\ [][(pc = "after_cb" /\ ~ LastRet) => (pc' = "returned" /\ rets' = rets)]_vars
  /\ (pc = "after_cb" /\ ~ LastRet) ~> (pc = "returned")

C1_Witness ==
  /\ pc = "returned"
  /\ Len(rets) >= 2
  /\ ~ LastRet

(***************************************************************************)
(* C2: the Transport of the k-th cb call of a run (k = 0, 1, ...) has      *)
(* pos_samples = k * period_size.                                          *)
(***************************************************************************)
C2_PosSamples ==
  Called => cb_args.transport.pos_samples = Some(CallIndex * Cfg.period_size)

C2_Witness ==
  /\ pc = "in_cb"
  /\ Len(rets) >= 1
  /\ Layout.main_output_channels = Some(2)

(***************************************************************************)
(* C3: when a cb call begins, every sample of the main buffer and of every *)
(* auxiliary input and output buffer is zero, whatever earlier calls wrote.*)
(***************************************************************************)
C3_ZeroAtEntry ==
  /\ Called =>
       /\ IsZero(cb_args.buffer)
       /\ AllZero(cb_args.aux.inputs)
       /\ AllZero(cb_args.aux.outputs)
  /\ (pc = "in_cb" /\ writes = 0) =>
       /\ IsZero(buffer)
       /\ AllZero(aux_input_buffers)
       /\ AllZero(aux_output_buffers)

C3_Witness ==
  /\ pc = "in_cb"
  /\ writes = 0
  /\ prev_dirty \cap SamplesDirty # {}
  /\ Cardinality(prev_dirty \cap SamplesDirty) >= MaxWrites

(***************************************************************************)
(* C4: on every cb call the main buffer has as many channels as the layout *)
(* has main output channels (none: 0) and period_size samples in each, and *)
(* the shape stays the same during and between the calls of a run.         *)
(***************************************************************************)
MainChannelCount ==
  IF Layout.main_output_channels = None THEN 0
  ELSE Layout.main_output_channels[1]

HasShape(buf, channel_count, period_size) ==
  /\ buf.num_samples = period_size
  /\ Len(buf.output_slices) = channel_count
  /\ \A c \in 1..channel_count : Len(buf.output_slices[c]) = period_size

C4_MainShape ==
  /\ Called => HasShape(cb_args.buffer, MainChannelCount, Cfg.period_size)
  /\ pc \in {"loop", "in_cb", "after_cb", "returned"} =>
       HasShape(buffer, MainChannelCount, Cfg.period_size)

C4_Witness ==
  /\ pc = "after_cb"
  /\ Len(rets) >= 2
  /\ ~ IsZero(buffer)
  /\ MainChannelCount # Cfg.period_size

(***************************************************************************)
(* C5: on every cb call the auxiliary buffers are one per configured       *)
(* auxiliary input (output) port, in the configured order, the i-th with   *)
(* the i-th port's channel count and period_size samples per channel.      *)
(***************************************************************************)
MatchPorts(bufs, ports) ==
  /\ Len(bufs) = Len(ports)
  /\ \A i \in 1..Len(ports) : HasShape(bufs[i], ports[i], Cfg.period_size)

C5_AuxShape ==
  /\ Called =>
       /\ MatchPorts(cb_args.aux.inputs, Layout.aux_input_ports)
       /\ MatchPorts(cb_args.aux.outputs, Layout.aux_output_ports)
  /\ pc \in {"loop", "in_cb", "after_cb", "returned"} =>
       /\ MatchPorts(aux_input_buffers, Layout.aux_input_ports)
       /\ MatchPorts(aux_output_buffers, Layout.aux_output_ports)

C5_Witness ==
  /\ pc = "in_cb"
  /\ Len(rets) >= 1
  /\ Layout.aux_input_ports = << 2 >>
  /\ Layout.aux_output_ports = << 1, 1 >>
  /\ Len(cb_args.aux.inputs) = 1
  /\ Len(cb_args.aux.outputs) = 2

(***************************************************************************)
(* C6: after every accepted cb call the requested sleep is                 *)
(* max(0, interval - elapsed), with elapsed counted from the Instant read  *)
(* at the start of the iteration: never negative, 0 when elapsed >=        *)
(* interval, and otherwise elapsed + sleep = interval.                     *)
(***************************************************************************)
Elapsed == period_end - period_start

C6_SleepClamped ==
  (pc = "loop" /\ rets # << >>) =>
    /\ Elapsed = busy
    /\ sleep_req >= 0
    /\ Elapsed >= interval => sleep_req = 0
    /\ Elapsed < interval => Elapsed + sleep_req = interval

C6_Witness ==
  /\ pc = "loop"
  /\ rets # << >>
  /\ Elapsed > interval
  /\ sleep_req = 0

(***************************************************************************)
(* C7: run returns only because cb returned false: whenever run has        *)
(* returned, at least one call took place and the last one returned false; *)
(* after a call that returned true the only step of run is to go on to the *)
(* next iteration, and it does call cb again (as far as MaxIter explores). *)
(***************************************************************************)
ReturnedOnlyOnFalse ==
  pc = "returned" => (Len(rets) >= 1 /\ ~ LastRet)

C7_OnlyFalseStops ==
  /\ [] ReturnedOnlyOnFalse
  /\ [][(pc = "after_cb" /\ LastRet) => pc' = "loop"]_vars
  /\ [][pc = "loop" => pc' = "in_cb"]_vars
  /\ (pc = "after_cb" /\ LastRet /\ Len(rets) < MaxIter) ~> (pc = "in_cb")

C7_Witness ==
  /\ pc = "in_cb"
  /\ Len(rets) = MaxIter - 1
  /\ \A i \in 1..Len(rets) : rets[i]
  /\ Len(rets) >= 1

(***************************************************************************)
(* C8: on every cb call the Transport carries the configured tempo and     *)
(* time signature and playing = true; only pos_samples differs between the *)
(* calls of a run.                                                         *)
(***************************************************************************)
C8_TransportFields ==
  Called =>
    /\ cb_args.transport.tempo = Some(Cfg.tempo)
    /\ cb_args.transport.time_sig_numerator = Some(Cfg.timesig_num)
    /\ cb_args.transport.time_sig_denominator = Some(Cfg.timesig_denom)
    /\ cb_args.transport.playing = TRUE
    /\ [cb_args.transport EXCEPT !.pos_samples = None] =
         [sample_rate |-> Cfg.sample_rate, pos_samples |-> None,
          tempo |-> Some(Cfg.tempo),
          time_sig_numerator |-> Some(Cfg.timesig_num),
          time_sig_denominator |-> Some(Cfg.timesig_denom),
          playing |-> TRUE]

C8_Witness ==
  /\ pc = "in_cb"
  /\ Len(rets) >= 1
  /\ Cfg.timesig_num # Cfg.timesig_denom
  /\ cb_args.transport.pos_samples # Some(0)

(***************************************************************************)
(* C9: on every cb call the input note events are empty and the output     *)
(* note event sink is empty at entry, also after earlier calls pushed      *)
(* events into it.                                                         *)
(***************************************************************************)
C9_EventsEmptyAtEntry ==
  /\ Called => (cb_args.events = << >> /\ cb_args.output_events = << >>)
  /\ (pc = "in_cb" /\ prev_dirty # {}) => midi_output_events = << >>

C9_Witness ==
  /\ pc = "in_cb"
  /\ "midi" \in prev_dirty
  /\ midi_output_events = << >>

(***************************************************************************)
(* C10: when the plugin's I/O layout cannot be resolved, Dummy::new ends   *)
(* the process: no driver exists, run is never entered and cb never called.*)
(***************************************************************************)
C10_NoLayoutNoDriver ==
  plugin_layout = None =>
    /\ pc \in {"start", "exited"}
    /\ self = None
    /\ runs = 0
    /\ allocs = 0
    /\ ~ Called
    /\ rets = << >>

C10_Witness ==
  /\ pc = "exited"
  /\ plugin_layout = None

(***************************************************************************)
(* C11, as stated: the sample storage of all buses is allocated exactly    *)
(* once, at the construction of the driver: as soon as the driver exists,  *)
(* and from then on, one storage block per bus has been allocated.         *)
(***************************************************************************)
StorageBlockCount ==
  1 + Len(Layout.aux_input_ports) + Len(Layout.aux_output_ports)

C11_AllocatedAtConstruction ==
  self # None => allocs = StorageBlockCount

(***************************************************************************)
(* C11, amended: Dummy::new allocates no sample storage; each call of run  *)
(* allocates the storage of all buses once, before its loop, and the       *)
(* iterations of that run reuse it.                                        *)
(***************************************************************************)
C11_AllocatedPerRun ==
  /\ self = None => allocs = 0
  /\ self # None => allocs = runs * StorageBlockCount

C11_Witness ==
  /\ runs = 2
  /\ pc = "in_cb"
  /\ calls = 2
  /\ prev_dirty \cap SamplesDirty # {}
  /\ allocs = 2 * StorageBlockCount

(***************************************************************************)
(* C12: between the return of the cb call that returned false and the      *)
(* return of run the driver does nothing else: the counter is not          *)
(* advanced, no buffer and no queue is touched, the clock is not read and  *)
(* nothing is slept.                                                       *)
(***************************************************************************)
C12_NothingAfterFalse ==
  /\ [](pc = "returned" =>
          num_processed_samples = (Len(rets) - 1) * Cfg.period_size)
  /\ [][(pc = "after_cb" /\ ~ LastRet) =>
          /\ pc' = "returned"
          /\ UNCHANGED << num_processed_samples, buffer, aux_input_buffers,
                          aux_output_buffers, midi_output_events,
                          period_start, period_end, sleep_req, now >>]_vars

C12_Witness ==
  /\ pc = "returned"
  /\ Len(rets) >= 2
  /\ Dirty \cap SamplesDirty # {}
  /\ "midi" \in Dirty

(***************************************************************************)
(* C13: the sleep of an iteration depends on that iteration's own start    *)
(* and elapsed time only, whether or not the previous iteration overran;   *)
(* with a sleep that lasts at least as long as requested, the next         *)
(* iteration starts no earlier than this one's start plus the interval,    *)
(* and later than that by at least the overrun when this one overran.      *)
(***************************************************************************)
\* at the top of the loop: the distance from the last period_start to the next
Gap == now - period_start

C13_NoDriftCompensation ==
  (pc = "loop" /\ rets # << >>) =>
    /\ sleep_req = IF Elapsed >= interval THEN 0 ELSE interval - Elapsed
    /\ Gap >= interval
    /\ Elapsed > interval => Gap >= interval + (Elapsed - interval)

C13_Witness ==
  /\ pc = "loop"
  /\ Len(rets) >= 2
  /\ prev_overran
  /\ Elapsed < interval
  /\ sleep_req = interval - Elapsed

(***************************************************************************)
(* C14: the driver and the callback take turns on the storage: at most one *)
(* cb call is in progress, it is in progress exactly while cb holds the    *)
(* views, the driver zeroes only when every call begun has returned, and   *)
(* while a call is in progress the storage changes by cb's writes only.    *)
(***************************************************************************)
InProgress == calls - Len(rets)

C14_Alternate ==
  /\ [](/\ InProgress \in {0, 1}
        /\ InProgress = 1 <=> pc = "in_cb")
  /\ [][calls' = calls + 1 => (InProgress = 0 /\ pc = "loop")]_vars
  /\ [][pc = "in_cb" =>
          \/ UNCHANGED << buffer, aux_input_buffers, aux_output_buffers >>
          \/ (pc' = "in_cb" /\ writes' = writes + 1)]_vars

C14_Witness ==
  /\ pc = "in_cb"
  /\ calls = 2
  /\ writes >= 1
  /\ Dirty \cap SamplesDirty # {}

(***************************************************************************)
(* C15: with no main output in the layout, cb is still called with a main  *)
(* buffer of 0 channels and period_size samples, and the counter still     *)
(* advances by period_size per accepted call.                              *)
(***************************************************************************)
C15_NoMainOutput ==
  (self # None /\ Layout.main_output_channels = None) =>
    /\ Called =>
         /\ Len(cb_args.buffer.output_slices) = 0
         /\ cb_args.buffer.num_samples = Cfg.period_size
         /\ cb_args.transport.pos_samples
              = Some(CallIndex * Cfg.period_size)
    /\ pc = "loop" => num_processed_samples = Len(rets) * Cfg.period_size

C15_Witness ==
  /\ self # None
  /\ Layout.main_output_channels = None
  /\ pc = "in_cb"
  /\ calls = 2
  /\ cb_args.transport.pos_samples # Some(0)

(***************************************************************************)
(* C16: the counter belongs to one call of run: the first cb call of a     *)
(* later run on the same driver gets pos_samples = 0 and zeroed buffers of *)
(* the layout's shape, however many periods the earlier run processed.     *)
(***************************************************************************)
C16_CounterLocalToRun ==
  (runs >= 2 /\ calls = 1) =>
    /\ cb_args.transport.pos_samples = Some(0)
    /\ IsZero(cb_args.buffer)
    /\ AllZero(cb_args.aux.inputs)
    /\ AllZero(cb_args.aux.outputs)
    /\ HasShape(cb_args.buffer, MainChannelCount, Cfg.period_size)
    /\ MatchPorts(cb_args.aux.inputs, Layout.aux_input_ports)
    /\ MatchPorts(cb_args.aux.outputs, Layout.aux_output_ports)

C16_Witness ==
  /\ runs = 2
  /\ pc = "in_cb"
  /\ calls = 1
  /\ earlier_processed > 0
  /\ MainChannelCount > 0

====
